---------------------------- MODULE Spec2Model ----------------------------
(***************************************************************************)
(* The MITRE ATT&CK chatbot: the chat session loop and its prompt          *)
(* assembly (src/src/chatbot.py), the context rendering (build_context),   *)
(* the indexer runs against the on-disk vector store and the metadata      *)
(* they store (src/src/indexer.py, src/indexer.py), and the text           *)
(* utilities (src/src/utils/text_processing.py).                           *)
(*                                                                         *)
(* Text is modelled as a sequence of pieces (one-character strings for     *)
(* user input, whole literals for the fixed parts of a format string), so  *)
(* that trimming, lower-casing and concatenation are computed.             *)
(***************************************************************************)
EXTENDS Integers, Sequences, FiniteSets, TLC

VARIABLES
    \* ---- chat session (src/src/chatbot.py main) ----
    pc,          \* position of main: START, AWAITING_INPUT, PROCESSING, TERMINATED, EXITED
    messages,    \* state["messages"]: the conversation transcript
    query,       \* the stripped query of the current turn
    sent,        \* the message list handed to llm.invoke by the last model call
    out,         \* what the last step printed, in order
    ev,          \* what the last step's external calls did
    reads,       \* number of input() calls made
    llmCalls,    \* number of llm.invoke calls made
    exitCode,    \* process exit status, -1 while running
    env,         \* command line and environment of the chat command
    embedding,   \* the embedding model main set up: none, openai, local
    \* ---- context rendering (build_context) ----
    ctxIn,       \* the arguments and the similarity search's outcome
    ctxOut,      \* what build_context returned and printed
    \* ---- indexer (src/src/indexer.py main, src/indexer.py main) ----
    storeExists, \* os.path.exists(args.vector_store)
    storeChunks, \* the chunks held by the collection at the target path
    total,       \* number of chunks the source file splits into
    run,         \* arguments, outcome and effects of the last indexer run
    \* ---- one technique record from the source file to the prompt ----
    record,      \* the record as the source file holds it
    stored,      \* the metadata the indexer stored with the record's chunks
    surfaced,    \* the context build_context rendered from such a chunk
    \* ---- text utilities (src/src/utils/text_processing.py) ----
    call,        \* the function called and its arguments
    result       \* what the call returned

chatVars == <<pc, messages, query, sent, out, ev, reads, llmCalls, exitCode, env,
             embedding>>
ctxVars == <<ctxIn, ctxOut>>
idxVars == <<storeExists, storeChunks, total, run>>
recVars == <<record, stored, surfaced>>
txtVars == <<call, result>>
vars == <<pc, messages, query, sent, out, ev, reads, llmCalls, exitCode, env,
          embedding, ctxIn, ctxOut, storeExists, storeChunks, total, run,
          record, stored, surfaced, call, result>>

-----------------------------------------------------------------------------
(* Bounds of the model *)

MaxReads == 3       \* input() calls per session
MaxK == 2           \* largest retrieval breadth tried
MaxBatches == 2     \* the source fills at most MaxBatches batches, plus one chunk
MaxTactics == 2     \* longest tactics list of a record
MaxTextLen == 5     \* longest text of clean_text and truncate_text, in characters
MaxPieces == 4      \* longest text of extract_keywords and validate_query, in pieces
MaxKeywords == 3    \* largest max_keywords tried
MaxMinLength == 3   \* largest min_length tried

-----------------------------------------------------------------------------
(* Text helpers: str.strip, str.lower *)

Whitespace == {" ", "\t"}

RECURSIVE lstrip(_)
lstrip(s) ==
    IF s = <<>> THEN <<>>
    ELSE IF Head(s) \in Whitespace THEN lstrip(Tail(s)) ELSE s

RECURSIVE rstrip(_)
rstrip(s) ==
    IF s = <<>> THEN <<>>
    ELSE IF s[Len(s)] \in Whitespace THEN rstrip(SubSeq(s, 1, Len(s) - 1)) ELSE s

strip(s) == rstrip(lstrip(s))

lowerChar(c) ==
    CASE c = "E" -> "e" [] c = "X" -> "x" [] c = "I" -> "i" [] c = "T" -> "t"
      [] c = "Q" -> "q" [] c = "U" -> "u" [] c = "H" -> "h"
      [] OTHER -> c

lower(s) == [i \in 1..Len(s) |-> lowerChar(s[i])]

Last(s) == s[Len(s)]

IsPrefix(s, t) == Len(s) <= Len(t) /\ SubSeq(t, 1, Len(s)) = s

RECURSIVE Flatten(_)
Flatten(ss) == IF ss = <<>> THEN <<>> ELSE Head(ss) \o Flatten(Tail(ss))

-----------------------------------------------------------------------------
(* Configuration (src/src/config.py) *)

SYSTEM_PROMPT == "You are an expert assistant in MITRE ATT&CK. ..."

EXIT_COMMANDS ==
    { <<":", "e", "x", "i", "t">>,
      <<":", "q", "u", "i", "t">>,
      <<":", "t", "e", "r", "m", "i", "n", "a", "t", "e">>,
      <<":", "s", "a", "l", "i", "r">> }

Preamble == <<"You are a MITRE ATT&CK expert assistant.">>

-----------------------------------------------------------------------------
(* Documents of the vector store.  A document is its page_content and a    *)
(* metadata dict: a function from the keys that are present to values.     *)
(* mitigations is a list of dicts with keys among name, description.       *)

ScalarFields == {"name", "id", "tactics", "detection", "datasources",
                 "permissions_required", "url"}
Fields == ScalarFields \cup {"mitigations"}

Has(d, key) == key \in DOMAIN d

\* dict.get(key, default)
Get(d, key, default) == IF Has(d, key) THEN d[key] ELSE default

MitigationLists ==
    { <<>>,
      << [name |-> "Code Signing", description |-> "Enforce integrity"] >>,
      << [name |-> "Code Signing"], [description |-> "Enforce integrity"] >> }

ValueOf(f) ==
    CASE f = "name" -> "Test Technique"
      [] f = "id" -> "T1059"
      [] f = "tactics" -> "execution"
      [] f = "detection" -> "Monitor process execution"
      [] f = "datasources" -> "Process monitoring"
      [] f = "permissions_required" -> "User"
      [] f = "url" -> "https://attack.mitre.org/techniques/T1059/"

\* every metadata dict: any subset of the fields present
Metadatas ==
    UNION { { [f \in present |-> IF f = "mitigations" THEN ml ELSE ValueOf(f)]
                : ml \in (IF "mitigations" \in present THEN MitigationLists ELSE {<<>>}) }
            : present \in SUBSET Fields }

AllDocs == { [page_content |-> "Test content", metadata |-> m] : m \in Metadatas }

FullDoc ==
    [page_content |-> "Test content",
     metadata |-> [f \in Fields |->
                     IF f = "mitigations"
                     THEN << [name |-> "Code Signing", description |-> "Enforce integrity"] >>
                     ELSE ValueOf(f)]]

\* a chunk as the first indexer wrote it: no detection, no mitigations
LegacyDoc ==
    [page_content |-> "Other content",
     metadata |-> [f \in {"id", "name", "url", "tactics", "datasources",
                          "permissions_required"} |-> ValueOf(f)]]

CommonDocs == {FullDoc, LegacyDoc}


\* vector_store.similarity_search(user_query, k): it raises, or it returns
\* at most k documents.  The first document ranges over every metadata
\* dict, the following ones over CommonDocs.
ResultLists(k) ==
    {<<>>} \cup
    UNION { { <<d>> \o rest : d \in AllDocs, rest \in [1..(n - 1) -> CommonDocs] }
            : n \in 1..k }

SearchOutcomes(k) ==
    { [raised |-> TRUE, docs |-> <<>>] } \cup
    { [raised |-> FALSE, docs |-> ds] : ds \in ResultLists(k) }

-----------------------------------------------------------------------------
(* build_context (src/src/chatbot.py 66-102).  A string is the sequence of *)
(* its lines, a line the sequence of the pieces the f-string joins.        *)

\* "\n".join(f"- {name}: {description}" for m in mitigations), as lines:
\* the empty string is one empty line
mitigation_details(md) ==
    LET ms == Get(md, "mitigations", <<>>)
    IN  IF ms = <<>> THEN << <<>> >>
        ELSE [i \in 1..Len(ms) |->
                <<"- ", Get(ms[i], "name", "No name"), ": ",
                  Get(ms[i], "description", "Description not available")>>]

\* the block appended to the context for one document (lines 88-98)
Block(doc) ==
    LET md == doc.metadata
    IN  << <<"Technique: ", Get(md, "name", "Unknown"), " (ID: ", Get(md, "id", "N/A"), ")">>,
           <<"Tactics: ", Get(md, "tactics", "Unknown")>>,
           <<"Description: ", doc.page_content>>,
           <<"Detection: ", Get(md, "detection", "Not available")>>,
           <<"Data sources: ", Get(md, "datasources", "Not available")>>,
           <<"Required permissions: ", Get(md, "permissions_required", "Not available")>>,
           <<"Mitigation methods:">> >>
        \o mitigation_details(md)
        \o << <<"URL: ", Get(md, "url", "Not available")>>, <<>> >>

ContextError == << <<"Error retrieving context information.">> >>

\* build_context with a loop that stops one document short
MutBuildContextSkipsLast(user_query, search, num_similar_docs) ==
    IF search.raised
    THEN [context |-> ContextError, printed |-> <<"Error building context">>]
    ELSE [context |-> Flatten([i \in 1..(Len(search.docs) - 1) |-> Block(search.docs[i])]),
          printed |-> <<>>]

\* build_context that swallows the failure: empty context, nothing printed
MutBuildContextSilent(user_query, search, num_similar_docs) ==
    IF search.raised
    THEN [context |-> <<>>, printed |-> <<>>]
    ELSE [context |-> Flatten([i \in 1..Len(search.docs) |-> Block(search.docs[i])]),
          printed |-> <<>>]

\* search is what vector_store.similarity_search(user_query, k=num_similar_docs) did
build_context(user_query, search, num_similar_docs) ==
    IF search.raised
    THEN [context |-> ContextError, printed |-> <<"Error building context">>]
    ELSE [context |-> Flatten([i \in 1..Len(search.docs) |-> Block(search.docs[i])]),
          printed |-> <<>>]

-----------------------------------------------------------------------------
(* Messages and the model call (src/src/chatbot.py 104-146) *)

SystemMessage(c) == [type |-> "system", content |-> c]
HumanMessage(c) == [type |-> "human", content |-> c]

\* the lines of conversation_history (lines 120-123)
conversation_history(msgs) ==
    [i \in 1..Len(msgs) |->
        IF msgs[i].type = "human"
        THEN <<"User: ", msgs[i].content>>
        ELSE <<"Assistant: ", msgs[i].content>>]

\* the f-string of lines 129-132, piece by piece
Prompt(history, context, user_query) ==
    <<SYSTEM_PROMPT, "\n\nConversation history:\n", history,
      "\n\nRelevant context:\n", context, "\n\nQuestion: ", user_query>>

ErrorMarker(e) == <<"Error calling language model: ", e>>

\* llm.invoke: it returns a reply or raises
LlmOutcomes ==
    { [raised |-> FALSE, content |-> <<"Answer A">>],
      [raised |-> FALSE, content |-> <<"Answer B">>],
      [raised |-> TRUE, content |-> <<"rate limit">>] }

\* call_model whose except branch only prints: no error marker is appended
MutCallModelNoMarker(msgs, search, num_similar, llm) ==
    LET user_query == Last(msgs).content
        history == conversation_history(msgs)
        ctx == build_context(user_query, search, num_similar)
        prompt == Prompt(history, ctx.context, user_query)
    IN  IF ~llm.raised
        THEN [messages |-> Append(msgs, SystemMessage(llm.content)),
              sent |-> << SystemMessage(prompt) >>,
              printed |-> ctx.printed]
        ELSE [messages |-> msgs,
              sent |-> << SystemMessage(prompt) >>,
              printed |-> ctx.printed \o <<"Error calling language model">>]

\* call_model that returns only the new message instead of the history
MutCallModelReturnsOnlyReply(msgs, search, num_similar, llm) ==
    LET user_query == Last(msgs).content
        history == conversation_history(msgs)
        ctx == build_context(user_query, search, num_similar)
        prompt == Prompt(history, ctx.context, user_query)
    IN  IF ~llm.raised
        THEN [messages |-> << SystemMessage(llm.content) >>,
              sent |-> << SystemMessage(prompt) >>,
              printed |-> ctx.printed]
        ELSE [messages |-> << SystemMessage(ErrorMarker(llm.content)) >>,
              sent |-> << SystemMessage(prompt) >>,
              printed |-> ctx.printed \o <<"Error calling language model">>]

\* message_state["messages"] is msgs; search and llm are what the two
\* external calls did.  Returns the updated history, the message list that
\* was handed to llm.invoke and what was printed.
call_model(msgs, search, num_similar, llm) ==
    LET user_query == Last(msgs).content
        history == conversation_history(msgs)
        ctx == build_context(user_query, search, num_similar)
        prompt == Prompt(history, ctx.context, user_query)
    IN  IF ~llm.raised
        THEN [messages |-> Append(msgs, SystemMessage(llm.content)),
              sent |-> << SystemMessage(prompt) >>,
              printed |-> ctx.printed]
        ELSE [messages |-> Append(msgs, SystemMessage(ErrorMarker(llm.content))),
              sent |-> << SystemMessage(prompt) >>,
              printed |-> ctx.printed \o <<"Error calling language model">>]

\* setup_embedding_model (lines 198-214)
setup_embedding_model(use_openai, use_local, apiKey) ==
    IF use_openai /\ apiKey THEN "openai"
    ELSE IF use_local THEN "local"
    ELSE IF ~apiKey THEN "local" ELSE "openai"

-----------------------------------------------------------------------------
(* The chat command: main (src/src/chatbot.py 216-325) *)

\* what the user may type at the prompt
RawInputs ==
    { <<>>,
      <<" ", "\t">>,
      <<":", "e", "x", "i", "t">>,
      <<" ", ":", "E", "x", "I", "T", " ">>,
      <<":", "Q", "U", "I", "T", "\t">>,
      <<" ", "H", "i", " ">>,
      <<":", "e", "x", "i", "t", " ", "h", "i">> }

\* args.openai is a store_true flag whose default is True (lines 172-176)
ChatEnvs ==
    [apiKey : BOOLEAN, openai : {TRUE}, sentence_transformers : BOOLEAN,
     num_similar : 0..MaxK, debug : BOOLEAN, index : BOOLEAN]

\* the documents the session's similarity search can return
ChatSearchOutcomes(k) ==
    { [raised |-> TRUE, docs |-> <<>>] } \cup
    { [raised |-> FALSE, docs |-> ds] :
        ds \in { r \in UNION { [1..n -> CommonDocs] : n \in 0..k } :
                   \A i, j \in 1..Len(r) : i # j => r[i] # r[j] } }

NoEvent == [op |-> "none", search |-> "none", llm |-> "none"]

Traceback == IF env.debug THEN <<"traceback">> ELSE <<>>

Confirmations == {"Embedding model configured", "Index successfully loaded",
                  "Language model configured", "Chatbot workflow initialized"}

\* Initialization with the credential check made after the embedding model
\* and the vector store are set up
MutInitializationLateKeyCheck(e, failing) ==
    LET emb == setup_embedding_model(e.openai, e.sentence_transformers, e.apiKey)
        p0 == <<"Initializing">>
        p1 == p0 \o <<"Embedding model configured">>
        p2 == p1 \o <<"Index successfully loaded">>
        p3 == p2 \o <<"Language model configured">>
        p4 == p3 \o <<"Chatbot workflow initialized">>
        Exit(printed, m) == [pc |-> "EXITED", exit |-> 1, out |-> printed, embedding |-> m]
    IN  IF failing = "embedding"
        THEN Exit(p0 \o <<"Error setting up embedding model">>, "none")
        ELSE IF failing = "store"
        THEN Exit(p1 \o <<"Error loading index", "Please make sure you have generated the index">>,
                  emb)
        ELSE IF ~e.apiKey THEN Exit(p2 \o <<"OpenAI API key is required">>, emb)
        ELSE IF failing = "llm" THEN Exit(p2 \o <<"Error setting up language model">>, emb)
        ELSE IF failing = "workflow"
        THEN Exit(p3 \o <<"Error initializing chatbot workflow">>, emb)
        ELSE [pc |-> "AWAITING_INPUT", exit |-> -1, out |-> p4 \o <<"banner">>,
              embedding |-> emb]

\* lines 219-280 of main: the credential check, then the embedding model,
\* the vector store (load_vector_store, 40-64), the language model and the
\* workflow are set up, each printing its confirmation.  failing names the
\* constructor that raises, if one does.  load_vector_store exits only when
\* the Chroma constructor raises: it does not look whether an index is at
\* the path, and the constructor opens a path that holds none (it is how
\* create_vector_store of the indexer makes a new store).
Initialization(e, failing) ==
    LET emb == setup_embedding_model(e.openai, e.sentence_transformers, e.apiKey)
        p0 == <<"Initializing">>
        p1 == p0 \o <<"Embedding model configured">>
        p2 == p1 \o <<"Index successfully loaded">>
        p3 == p2 \o <<"Language model configured">>
        p4 == p3 \o <<"Chatbot workflow initialized">>
        Exit(printed, m) == [pc |-> "EXITED", exit |-> 1, out |-> printed, embedding |-> m]
    IN  IF ~e.apiKey THEN Exit(p0 \o <<"OpenAI API key is required">>, "none")
        ELSE IF failing = "embedding"
        THEN Exit(p0 \o <<"Error setting up embedding model">>, "none")
        ELSE IF failing = "store"
        THEN Exit(p1 \o <<"Error loading index", "Please make sure you have generated the index">>,
                  emb)
        ELSE IF failing = "llm" THEN Exit(p2 \o <<"Error setting up language model">>, emb)
        ELSE IF failing = "workflow"
        THEN Exit(p3 \o <<"Error initializing chatbot workflow">>, emb)
        ELSE [pc |-> "AWAITING_INPUT", exit |-> -1, out |-> p4 \o <<"banner">>,
              embedding |-> emb]

\* lines 216-283: main up to the first prompt
Startup ==
    /\ pc = "START"
    /\ \E failing \in {"none", "embedding", "store", "llm", "workflow"} :
         LET r == Initialization(env, failing)
         IN  /\ pc' = r.pc
             /\ exitCode' = r.exit
             /\ out' = r.out
             /\ embedding' = r.embedding
             /\ messages' = IF r.pc = "AWAITING_INPUT" THEN << SystemMessage(Preamble) >>
                            ELSE messages
             /\ ev' = [NoEvent EXCEPT !.op = "startup"]
    /\ UNCHANGED <<query, sent, reads, llmCalls, env>>
    /\ UNCHANGED <<ctxVars, idxVars, recVars, txtVars>>

\* ReadInput without the empty-query check of lines 293-295
MutReadInputNoEmptyCheck ==
    /\ pc = "AWAITING_INPUT"
    /\ reads < MaxReads
    /\ \E raw \in RawInputs :
         LET q == strip(raw)
         IN  /\ query' = q
             /\ IF lower(q) \in EXIT_COMMANDS
                THEN /\ out' = <<"Goodbye">>
                     /\ pc' = "TERMINATED"
                     /\ exitCode' = 0
                     /\ UNCHANGED messages
                ELSE /\ messages' = Append(messages, HumanMessage(q))
                     /\ pc' = "PROCESSING"
                     /\ out' = <<>>
                     /\ UNCHANGED exitCode
    /\ reads' = reads + 1
    /\ ev' = [NoEvent EXCEPT !.op = "input"]
    /\ UNCHANGED <<sent, llmCalls, env, embedding>>
    /\ UNCHANGED <<ctxVars, idxVars, recVars, txtVars>>

\* ReadInput that compares the query with the exit commands as typed,
\* without lower()
MutReadInputExactExit ==
    /\ pc = "AWAITING_INPUT"
    /\ reads < MaxReads
    /\ \E raw \in RawInputs :
         LET q == strip(raw)
         IN  /\ query' = q
             /\ IF q \in EXIT_COMMANDS
                THEN /\ out' = <<"Goodbye">>
                     /\ pc' = "TERMINATED"
                     /\ exitCode' = 0
                     /\ UNCHANGED messages
                ELSE IF q = <<>>
                THEN /\ out' = <<"Please enter a question or use an exit command">>
                     /\ UNCHANGED <<pc, exitCode, messages>>
                ELSE /\ messages' = Append(messages, HumanMessage(q))
                     /\ pc' = "PROCESSING"
                     /\ out' = <<>>
                     /\ UNCHANGED exitCode
    /\ reads' = reads + 1
    /\ ev' = [NoEvent EXCEPT !.op = "input"]
    /\ UNCHANGED <<sent, llmCalls, env, embedding>>
    /\ UNCHANGED <<ctxVars, idxVars, recVars, txtVars>>

\* lines 287-297: input() returned raw
ReadInput ==
    /\ pc = "AWAITING_INPUT"
    /\ reads < MaxReads
    /\ \E raw \in RawInputs :
         LET q == strip(raw)
         IN  /\ query' = q
             /\ IF lower(q) \in EXIT_COMMANDS
                THEN /\ out' = <<"Goodbye">>
                     /\ pc' = "TERMINATED"
                     /\ exitCode' = 0
                     /\ UNCHANGED messages
                ELSE IF q = <<>>
                THEN /\ out' = <<"Please enter a question or use an exit command">>
                     /\ UNCHANGED <<pc, exitCode, messages>>
                ELSE /\ messages' = Append(messages, HumanMessage(q))
                     /\ pc' = "PROCESSING"
                     /\ out' = <<>>
                     /\ UNCHANGED exitCode
    /\ reads' = reads + 1
    /\ ev' = [NoEvent EXCEPT !.op = "input"]
    /\ UNCHANGED <<sent, llmCalls, env, embedding>>
    /\ UNCHANGED <<ctxVars, idxVars, recVars, txtVars>>

\* lines 319-320: KeyboardInterrupt while input() waits
InputInterrupt ==
    /\ pc = "AWAITING_INPUT"
    /\ reads < MaxReads
    /\ reads' = reads + 1
    /\ out' = <<"Session interrupted. Goodbye">>
    /\ pc' = "TERMINATED"
    /\ exitCode' = 0
    /\ ev' = [NoEvent EXCEPT !.op = "input_interrupt"]
    /\ UNCHANGED <<messages, query, sent, llmCalls, env, embedding>>
    /\ UNCHANGED <<ctxVars, idxVars, recVars, txtVars>>

\* lines 321-325: input() raises an Exception (EOFError at end of input)
InputError ==
    /\ pc = "AWAITING_INPUT"
    /\ reads < MaxReads
    /\ reads' = reads + 1
    /\ out' = <<"Unexpected error">> \o Traceback
    /\ pc' = "TERMINATED"
    /\ exitCode' = 0
    /\ ev' = [NoEvent EXCEPT !.op = "input_error"]
    /\ UNCHANGED <<messages, query, sent, llmCalls, env, embedding>>
    /\ UNCHANGED <<ctxVars, idxVars, recVars, txtVars>>

\* lines 299-310: app.invoke runs the model node and returns its result
Invoke ==
    /\ pc = "PROCESSING"
    /\ \E search \in ChatSearchOutcomes(env.num_similar), llm \in LlmOutcomes :
         LET response == call_model(messages, search, env.num_similar, llm)
         IN  /\ messages' = response.messages
             /\ sent' = response.sent
             /\ out' = response.printed \o << Last(response.messages).content >>
             /\ ev' = [op |-> "invoke",
                       search |-> IF search.raised THEN "raised" ELSE "ok",
                       llm |-> IF llm.raised THEN "raised" ELSE "ok"]
    /\ llmCalls' = llmCalls + 1
    /\ pc' = "AWAITING_INPUT"
    /\ UNCHANGED <<query, reads, exitCode, env, embedding>>
    /\ UNCHANGED <<ctxVars, idxVars, recVars, txtVars>>

\* lines 312-317: app.invoke raises an Exception
InvokeError ==
    /\ pc = "PROCESSING"
    /\ out' = <<"Error processing your question">> \o Traceback
               \o <<"Please try rephrasing your question">>
    /\ ev' = [NoEvent EXCEPT !.op = "invoke_error"]
    /\ pc' = "AWAITING_INPUT"
    /\ UNCHANGED <<messages, query, sent, reads, llmCalls, exitCode, env, embedding>>
    /\ UNCHANGED <<ctxVars, idxVars, recVars, txtVars>>

\* lines 319-320: KeyboardInterrupt while the turn is processed, before or
\* during the model call
InvokeInterrupt ==
    /\ pc = "PROCESSING"
    /\ \E called \in BOOLEAN : llmCalls' = llmCalls + (IF called THEN 1 ELSE 0)
    /\ out' = <<"Session interrupted. Goodbye">>
    /\ ev' = [NoEvent EXCEPT !.op = "invoke_interrupt"]
    /\ pc' = "TERMINATED"
    /\ exitCode' = 0
    /\ UNCHANGED <<messages, query, sent, reads, env, embedding>>
    /\ UNCHANGED <<ctxVars, idxVars, recVars, txtVars>>

-----------------------------------------------------------------------------
(* The context rendering on its own: build_context applied to every        *)
(* outcome of the similarity search                                        *)

BuildContext ==
    /\ ~ctxOut.done
    /\ LET r == build_context(<<"q">>, ctxIn.search, ctxIn.k)
       IN  ctxOut' = [done |-> TRUE, context |-> r.context, printed |-> r.printed]
    /\ UNCHANGED ctxIn
    /\ UNCHANGED <<chatVars, idxVars, recVars, txtVars>>

-----------------------------------------------------------------------------
(* The indexer: main of src/src/indexer.py (234-273) and main of the first *)
(* indexer, src/indexer.py (16-79).  A run is one step.                    *)

BatchSize == 100
CHUNK_SIZE == 1024
LocalChunkSize == 256

Min(a, b) == IF a <= b THEN a ELSE b

\* the chunks load_documents and split_documents produce from the source
Documents(n) == [i \in 1..n |-> i]

\* The records behind the chunks.  The source repeats three kinds of
\* record: one whose description fits one chunk, one with an empty
\* description (the splitter makes no chunk of it), one whose description
\* is split in two.  RecordOf(c) is the record chunk c was split from; the
\* splitter copies the record's metadata, its id included, to the chunk.
RecordOf(c) ==
    LET g == (c - 1) \div 3
    IN  IF (c - 1) % 3 = 0 THEN 3 * g + 1 ELSE 3 * g + 3

HasDescription(r) == r % 3 # 2

SourceRecords(n) == IF n = 0 THEN {} ELSE 1..RecordOf(n)

NumBatches(n) == (n + BatchSize - 1) \div BatchSize

\* sizes of the source tried: none, one chunk, and around every batch boundary
SourceSizes ==
    {0, 1} \cup { b * BatchSize + d : b \in 1..MaxBatches, d \in {-1, 0, 1} }

\* what can go wrong in a run: nothing, a constructor or the splitter
\* raising, or add_documents raising on batch number `batch`
Faults(n) ==
    { [at |-> a, batch |-> 0] : a \in {"none", "split", "openai", "local", "store"} }
    \cup { [at |-> "batch", batch |-> b] : b \in 1..NumBatches(n) }

\* the source file: loadable, not there, not JSON, a record without the
\* description (the loader's content key), or loadable with a record
\* that has no id
SourceFiles == {"ok", "missing", "malformed", "no_description", "no_id"}

\* load_documents (58-83) and the loader of src/indexer.py (43-51): does
\* loader.load() return
Loads(file) == file \in {"ok", "no_id"}

IndexerArgs ==
    [force : BOOLEAN, file : SourceFiles,
     openai : {TRUE}, sentence_transformers : BOOLEAN, apiKey : BOOLEAN]

\* split_documents (85-113): the chunk size it splits with
split_documents(use_openai) == IF use_openai THEN CHUNK_SIZE ELSE LocalChunkSize

\* setup_embeddings (115-149): the model it returns, "exit" for sys.exit
setup_embeddings(use_openai, use_local, apiKey, fault) ==
    LET fellBack == use_openai /\ apiKey /\ fault.at = "openai"
    IN  IF use_openai /\ apiKey /\ fault.at # "openai" THEN "openai"
        ELSE IF use_local \/ fellBack \/ ~apiKey
        THEN (IF fault.at = "local" THEN "exit" ELSE "local")
        ELSE "exit"

\* the loop of create_vector_store (172-175), from offset i
RECURSIVE add_batches(_, _, _, _)
add_batches(chunks, documents, i, fault) ==
    IF i >= Len(documents) THEN [chunks |-> chunks, raised |-> FALSE]
    ELSE IF fault.at = "batch" /\ fault.batch = (i \div BatchSize) + 1
    THEN [chunks |-> chunks, raised |-> TRUE]
    ELSE add_batches(chunks \o SubSeq(documents, i + 1, Min(i + BatchSize, Len(documents))),
                     documents, i + BatchSize, fault)

\* create_vector_store that adds the first batch only
MutCreateVectorStoreOneBatch(st, documents, fault) ==
    IF fault.at = "store" THEN [exists |-> st.exists, chunks |-> st.chunks, raised |-> TRUE]
    ELSE IF fault.at = "batch" /\ fault.batch = 1
    THEN [exists |-> TRUE, chunks |-> st.chunks, raised |-> TRUE]
    ELSE [exists |-> TRUE,
          chunks |-> st.chunks \o SubSeq(documents, 1, Min(BatchSize, Len(documents))),
          raised |-> FALSE]

\* create_vector_store (151-181): Chroma opens (and creates) the directory,
\* then the batches are added
create_vector_store(st, documents, fault) ==
    IF fault.at = "store" THEN [exists |-> st.exists, chunks |-> st.chunks, raised |-> TRUE]
    ELSE LET r == add_batches(st.chunks, documents, 0, fault)
         IN  [exists |-> TRUE, chunks |-> r.chunks, raised |-> r.raised]

Outcome(st, code, printed, emb, size, removed) ==
    [exists |-> st.exists, chunks |-> st.chunks, exit |-> code, out |-> printed,
     embedding |-> emb, chunk_size |-> size, removed |-> removed]

\* main without the rmtree of lines 250-253: --force writes into the old store
MutMainNoRmtree(st, args, n, fault) ==
    IF st.exists /\ ~args.force
    THEN Outcome(st, 0, <<"Vector store already exists">>, "none", 0, FALSE)
    ELSE
    LET emb == setup_embeddings(args.openai, args.sentence_transformers, args.apiKey, fault)
        size == split_documents(args.openai)
    IN  IF args.file = "missing"
        THEN Outcome(st, 1, <<"Techniques file not found">>, "none", 0, FALSE)
        ELSE IF ~Loads(args.file)
        THEN Outcome(st, 1, <<"Error loading documents">>, "none", 0, FALSE)
        ELSE IF fault.at = "split"
        THEN Outcome(st, 1, <<"Error splitting documents">>, "none", 0, FALSE)
        ELSE IF emb = "exit"
        THEN Outcome(st, 1, <<"Error setting up local embeddings">>, "none", size, FALSE)
        ELSE LET r == create_vector_store(st, Documents(n), fault)
             IN  IF r.raised
                 THEN Outcome(r, 1, <<"Error creating vector store">>, emb, size, FALSE)
                 ELSE Outcome(r, 0, <<"Indexing completed successfully">>, emb, size, FALSE)

\* main whose load_documents swallows the loader's exception and returns
\* the documents read so far, here none
MutMainIgnoresLoadError(st, args, n, fault) ==
    IF st.exists /\ ~args.force
    THEN Outcome(st, 0, <<"Vector store already exists">>, "none", 0, FALSE)
    ELSE
    LET removed == args.force /\ st.exists
        st1 == IF removed THEN [exists |-> FALSE, chunks |-> <<>>] ELSE st
        emb == setup_embeddings(args.openai, args.sentence_transformers, args.apiKey, fault)
        size == split_documents(args.openai)
        docs == IF Loads(args.file) THEN Documents(n) ELSE <<>>
    IN  IF args.file = "missing"
        THEN Outcome(st1, 1, <<"Techniques file not found">>, "none", 0, removed)
        ELSE IF fault.at = "split"
        THEN Outcome(st1, 1, <<"Error splitting documents">>, "none", 0, removed)
        ELSE IF emb = "exit"
        THEN Outcome(st1, 1, <<"Error setting up local embeddings">>, "none", size, removed)
        ELSE LET r == create_vector_store(st1, docs, fault)
             IN  IF r.raised
                 THEN Outcome(r, 1, <<"Error creating vector store">>, emb, size, removed)
                 ELSE Outcome(r, 0, <<"Indexing completed successfully">>, emb, size, removed)

\* main (234-273) run on the store st = [exists, chunks] with n source chunks
main(st, args, n, fault) ==
    IF st.exists /\ ~args.force
    THEN Outcome(st, 0, <<"Vector store already exists">>, "none", 0, FALSE)
    ELSE
    LET removed == args.force /\ st.exists
        st1 == IF removed THEN [exists |-> FALSE, chunks |-> <<>>] ELSE st
        emb == setup_embeddings(args.openai, args.sentence_transformers, args.apiKey, fault)
        size == split_documents(args.openai)
    IN  IF args.file = "missing"
        THEN Outcome(st1, 1, <<"Techniques file not found">>, "none", 0, removed)
        ELSE IF ~Loads(args.file)
        THEN Outcome(st1, 1, <<"Error loading documents">>, "none", 0, removed)
        ELSE IF fault.at = "split"
        THEN Outcome(st1, 1, <<"Error splitting documents">>, "none", 0, removed)
        ELSE IF emb = "exit"
        THEN Outcome(st1, 1, <<"Error setting up local embeddings">>, "none", size, removed)
        ELSE LET r == create_vector_store(st1, Documents(n), fault)
             IN  IF r.raised
                 THEN Outcome(r, 1, <<"Error creating vector store">>, emb, size, removed)
                 ELSE Outcome(r, 0, <<"Indexing completed successfully">>, emb, size, removed)

\* main of src/indexer.py (16-79): no --force, nothing is caught, one
\* add_documents call for all chunks
legacy_main(st, args, n, fault) ==
    IF st.exists
    THEN Outcome(st, 1, <<"El indice ya existe">>, "none", 0, FALSE)
    ELSE IF ~Loads(args.file) \/ fault.at = "split"
    THEN Outcome(st, 1, <<"traceback">>, "none", 0, FALSE)
    ELSE IF ~args.apiKey \/ fault.at = "openai"
    THEN Outcome(st, 1, <<"traceback">>, "none", split_documents(args.openai), FALSE)
    ELSE IF fault.at = "store"
    THEN Outcome(st, 1, <<"traceback">>, "openai", split_documents(args.openai), FALSE)
    ELSE IF fault.at = "batch"
    THEN Outcome([exists |-> TRUE, chunks |-> st.chunks], 1, <<"traceback">>, "openai",
                 split_documents(args.openai), FALSE)
    ELSE Outcome([exists |-> TRUE, chunks |-> st.chunks \o Documents(n)], 0,
                 <<"indice creado">>, "openai", split_documents(args.openai), FALSE)

Store == [exists |-> storeExists, chunks |-> storeChunks]

Ran(op, args, fault, r) ==
    /\ storeExists' = r.exists
    /\ storeChunks' = r.chunks
    /\ run' = [op |-> op, args |-> args, fault |-> fault, existed |-> storeExists,
               exit |-> r.exit, out |-> r.out,
               embedding |-> r.embedding, chunk_size |-> r.chunk_size,
               removed |-> r.removed,
               added |-> IF r.removed THEN Len(r.chunks)
                         ELSE Len(r.chunks) - Len(storeChunks)]
    /\ UNCHANGED total
    /\ UNCHANGED <<chatVars, ctxVars, recVars, txtVars>>

IndexerMain ==
    \E args \in IndexerArgs, fault \in Faults(total) :
        Ran("main", args, fault, main(Store, args, total, fault))

LegacyIndexerMain ==
    \E args \in { a \in IndexerArgs : ~a.force /\ ~a.sentence_transformers },
       fault \in Faults(total) :
        Ran("legacy_main", args, fault, legacy_main(Store, args, total, fault))

NoRun ==
    [op |-> "none",
     args |-> [force |-> FALSE, file |-> "ok", openai |-> TRUE,
               sentence_transformers |-> FALSE, apiKey |-> FALSE],
     fault |-> [at |-> "none", batch |-> 0], existed |-> FALSE, exit |-> -1, out |-> <<>>,
     embedding |-> "none", chunk_size |-> 0, removed |-> FALSE, added |-> 0]

-----------------------------------------------------------------------------
(* A technique record on its way from the source file to the prompt:       *)
(* the metadata function of the indexer (extract_metadata, src/src/        *)
(* indexer.py 36-56; extraer_metadatos, src/indexer.py 33-41) and          *)
(* build_context on a chunk that carries the stored metadata.  The list    *)
(* fields are lists of names, a name a sequence of pieces, so that         *)
(* ', '.join is computed.                                                  *)

Separator == <<",", " ">>

\* sep.join(list)
RECURSIVE join(_, _)
join(sep, list) ==
    IF list = <<>> THEN <<>>
    ELSE IF Len(list) = 1 THEN list[1]
    ELSE list[1] \o sep \o join(sep, Tail(list))

OptionalFields == {"name", "url", "tactics", "platforms", "datasources",
                   "permissions_required", "detection", "mitigations"}
RecordFields == {"id"} \cup OptionalFields

TacticNames == { <<"execution">>, <<"persistence">>, <<"defense", "-", "evasion">> }

TacticLists == UNION { [1..n -> TacticNames] : n \in 0..MaxTactics }

RecordValue(f) ==
    CASE f = "id" -> "T1059"
      [] f = "name" -> "Test Technique"
      [] f = "url" -> "https://attack.mitre.org/techniques/T1059/"
      [] f = "platforms" -> << <<"Linux">>, <<"macOS">> >>
      [] f = "datasources" -> << <<"Process monitoring">> >>
      [] f = "permissions_required" -> << <<"User">> >>
      [] f = "detection" -> "Monitor process execution"
      [] f = "mitigations" ->
            << [name |-> "Code Signing", description |-> "Enforce integrity"] >>
      [] f = "description" -> "Test content"

\* the records of a source file the loader accepts: the description is
\* there (it is the loader's content key), any other field may be absent
Records ==
    UNION { { [f \in present \cup {"description"} |->
                 IF f = "tactics" THEN tl ELSE RecordValue(f)]
                : tl \in (IF "tactics" \in present THEN TacticLists ELSE {<<>>}) }
            : present \in SUBSET RecordFields }

\* the metadata JSONLoader hands to its metadata_func
LoaderMetadata == [source |-> "techniques_enterprise_attack.json", seq_num |-> 1]

\* dict update: the keys of `set` assigned in `metadata`
Update(metadata, set) ==
    [k \in DOMAIN metadata \cup DOMAIN set |->
        IF k \in DOMAIN set THEN set[k] ELSE metadata[k]]

\* extract_metadata that stores the first tactic only
MutExtractMetadataFirstTactic(rec, metadata) ==
    Update(metadata,
           [id |-> Get(rec, "id", "Unknown"),
            name |-> Get(rec, "name", "No name"),
            url |-> Get(rec, "url", "Not available"),
            tactics |-> LET ts == Get(rec, "tactics", <<>>)
                        IN  IF ts = <<>> THEN <<>> ELSE ts[1],
            platforms |-> join(Separator, Get(rec, "platforms", <<>>)),
            datasources |-> join(Separator, Get(rec, "datasources", <<>>)),
            permissions_required |->
                join(Separator, Get(rec, "permissions_required", <<>>)),
            detection |-> Get(rec, "detection", "Not available"),
            mitigations |-> Get(rec, "mitigations", <<>>)])

\* extract_metadata (src/src/indexer.py 36-56)
extract_metadata(rec, metadata) ==
    Update(metadata,
           [id |-> Get(rec, "id", "Unknown"),
            name |-> Get(rec, "name", "No name"),
            url |-> Get(rec, "url", "Not available"),
            tactics |-> join(Separator, Get(rec, "tactics", <<>>)),
            platforms |-> join(Separator, Get(rec, "platforms", <<>>)),
            datasources |-> join(Separator, Get(rec, "datasources", <<>>)),
            permissions_required |->
                join(Separator, Get(rec, "permissions_required", <<>>)),
            detection |-> Get(rec, "detection", "Not available"),
            mitigations |-> Get(rec, "mitigations", <<>>)])

\* extraer_metadatos (src/indexer.py 33-41)
extraer_metadatos(rec, metadata) ==
    Update(metadata,
           [id |-> Get(rec, "id", "Desconocido"),
            name |-> Get(rec, "name", "Sin nombre"),
            url |-> Get(rec, "url", "No disponible"),
            tactics |-> join(Separator, Get(rec, "tactics", <<>>)),
            platforms |-> join(Separator, Get(rec, "platforms", <<>>)),
            datasources |-> join(Separator, Get(rec, "datasources", <<>>)),
            permissions_required |->
                join(Separator, Get(rec, "permissions_required", <<>>))])

NothingStored == [op |-> "none", metadata |-> <<>>]
NothingSurfaced == [done |-> FALSE, context |-> <<>>]

\* the indexer of src/src/indexer.py loads the record
ExtractMetadata ==
    /\ stored.op = "none"
    /\ stored' = [op |-> "extract_metadata",
                  metadata |-> extract_metadata(record, LoaderMetadata)]
    /\ UNCHANGED <<record, surfaced>>
    /\ UNCHANGED <<chatVars, ctxVars, idxVars, txtVars>>

\* the indexer of src/indexer.py loads the record
ExtraerMetadatos ==
    /\ stored.op = "none"
    /\ stored' = [op |-> "extraer_metadatos",
                  metadata |-> extraer_metadatos(record, LoaderMetadata)]
    /\ UNCHANGED <<record, surfaced>>
    /\ UNCHANGED <<chatVars, ctxVars, idxVars, txtVars>>

\* a query retrieves a chunk of the record: the splitter copied the
\* document's metadata to it, its text is (part of) the description
SurfaceChunk ==
    /\ stored.op # "none"
    /\ ~surfaced.done
    /\ LET chunk == [page_content |-> record.description, metadata |-> stored.metadata]
           r == build_context(<<"q">>, [raised |-> FALSE, docs |-> <<chunk>>], 1)
       IN  surfaced' = [done |-> TRUE, context |-> r.context]
    /\ UNCHANGED <<record, stored>>
    /\ UNCHANGED <<chatVars, ctxVars, idxVars, txtVars>>

-----------------------------------------------------------------------------
(* The text utilities (src/src/utils/text_processing.py), each applied to  *)
(* one call.  A text is a sequence of characters, or of pieces where a     *)
(* function works on words.  Python's indexing is kept: a negative index   *)
(* counts from the end of the text.                                        *)

NoCall == [fn |-> "none"]
NoResult == [done |-> FALSE, value |-> <<>>]

Max(a, b) == IF a >= b THEN a ELSE b

\* the position a slice bound i stands for in a text of length n
SliceBound(i, n) == IF i < 0 THEN Max(n + i, 0) ELSE Min(i, n)

\* text[:i]
Prefix(text, i) == SubSeq(text, 1, SliceBound(i, Len(text)))

\* text.rfind(' ', 0, end): the last index (from 0) of a space in text[0:end], or -1
rfind_space(text, end) ==
    LET hits == { j \in 1..SliceBound(end, Len(text)) : text[j] = " " }
    IN  IF hits = {} THEN -1
        ELSE (CHOOSE j \in hits : \A h \in hits : h <= j) - 1

\* truncate_text that cuts at max_length and then adds the suffix
MutTruncateIgnoresSuffix(text, max_length, suffix) ==
    IF Len(text) <= max_length THEN text
    ELSE LET found == rfind_space(text, max_length)
             truncate_at == IF found = -1 THEN max_length ELSE found
         IN  Prefix(text, truncate_at) \o suffix

\* truncate_text (161-182)
truncate_text(text, max_length, suffix) ==
    IF Len(text) <= max_length THEN text
    ELSE LET found == rfind_space(text, max_length - Len(suffix))
             truncate_at == IF found = -1 THEN max_length - Len(suffix) ELSE found
         IN  Prefix(text, truncate_at) \o suffix

\* the argument None
None == <<"None">>

\* the characters the pattern of line 26 keeps besides whitespace: \w and - . , : ; ! ? ( )
KeptChars == {"a", "b", "_", "1", "-", ".", ",", ":", ";", "!", "?", "(", ")"}

\* re.sub(r'\s+', ' ', text)
RECURSIVE collapse_whitespace(_)
collapse_whitespace(s) ==
    IF s = <<>> THEN <<>>
    ELSE IF Head(s) \in Whitespace THEN <<" ">> \o collapse_whitespace(lstrip(s))
    ELSE <<Head(s)>> \o collapse_whitespace(Tail(s))

\* re.sub(r'[^\w\s\-\.\,\:\;\!\?\(\)]', '', text)
remove_special(s) == SelectSeq(s, LAMBDA c : c \in KeptChars \cup Whitespace)

\* clean_text (9-28)
clean_text(text) ==
    IF text = None \/ text = <<>> THEN <<>>
    ELSE strip(remove_special(collapse_whitespace(text)))

\* The pieces of the texts of extract_keywords and validate_query: a piece
\* is a run of characters, PieceLen its length.  No piece is the beginning
\* of another, so a text is cut into pieces in one way only.
PieceLen(p) ==
    CASE p \in {" ", "\t", ",", "x", "a", "(", ">"} -> 1
      [] p \in {"is"} -> 2
      [] p \in {"The", "the", "cmd", "Cmd"} -> 3
      [] p \in {"Eval", "eval", "exec"} -> 4
      [] p = "<script" -> 7
      [] p = "</script>" -> 9
      [] p \in {"JavaScript:", "javascript:"} -> 11
      [] p = "data:text/html" -> 14

RECURSIVE TextLen(_)
TextLen(s) == IF s = <<>> THEN 0 ELSE PieceLen(Head(s)) + TextLen(Tail(s))

lowerPiece(p) ==
    CASE p = "The" -> "the" [] p = "Cmd" -> "cmd" [] p = "Eval" -> "eval"
      [] p = "JavaScript:" -> "javascript:" [] OTHER -> p

lowerPieces(s) == [i \in 1..Len(s) |-> lowerPiece(s[i])]

\* the one-character pieces [^\w\s] matches
PunctuationPieces == {",", "(", ">"}

\* lines 68-74
stop_words ==
    {"the", "a", "an", "and", "or", "but", "in", "on", "at", "to", "for",
     "of", "with", "by", "is", "are", "was", "were", "be", "been", "have",
     "has", "had", "do", "does", "did", "will", "would", "could", "should",
     "this", "that", "these", "those", "i", "you", "he", "she", "it", "we",
     "they", "me", "him", "her", "us", "them"}

\* str.split(): the runs of pieces between whitespace
RECURSIVE split_words(_)
split_words(s) ==
    LET t == lstrip(s)
    IN  IF t = <<>> THEN <<>>
        ELSE LET stops == { j \in 1..Len(t) : t[j] \in Whitespace }
                 n == IF stops = {} THEN Len(t)
                      ELSE (CHOOSE j \in stops : \A h \in stops : j <= h) - 1
             IN  <<SubSeq(t, 1, n)>> \o split_words(SubSeq(t, n + 1, Len(t)))

\* lines 80-85: the first occurrence of every keyword, in order
RECURSIVE unique(_, _)
unique(keywords, seen) ==
    IF keywords = <<>> THEN <<>>
    ELSE IF Head(keywords) \in seen THEN unique(Tail(keywords), seen)
    ELSE <<Head(keywords)>> \o unique(Tail(keywords), seen \cup {Head(keywords)})

IsStopWord(word) == Len(word) = 1 /\ word[1] \in stop_words

\* extract_keywords without the loop of lines 80-85: duplicates stay
MutExtractKeywordsKeepsDuplicates(text, max_keywords) ==
    IF text = <<>> THEN <<>>
    ELSE LET lowered == lowerPieces(text)
             spaced == [i \in 1..Len(lowered) |->
                          IF lowered[i] \in PunctuationPieces THEN " " ELSE lowered[i]]
             words == split_words(spaced)
             keywords == SelectSeq(words, LAMBDA w : TextLen(w) > 2 /\ ~IsStopWord(w))
         IN  Prefix(keywords, max_keywords)

\* extract_keywords (47-87)
extract_keywords(text, max_keywords) ==
    IF text = <<>> THEN <<>>
    ELSE LET lowered == lowerPieces(text)
             spaced == [i \in 1..Len(lowered) |->
                          IF lowered[i] \in PunctuationPieces THEN " " ELSE lowered[i]]
             words == split_words(spaced)
             keywords == SelectSeq(words, LAMBDA w : TextLen(w) > 2 /\ ~IsStopWord(w))
         IN  Prefix(unique(keywords, {}), max_keywords)

\* re.search(r'eval\s*\(', q) and re.search(r'exec\s*\(', q) on lowered
\* pieces: the word, any whitespace, an opening parenthesis
CallsFunction(q, word) ==
    \E i \in 1..Len(q), j \in 1..Len(q) :
        /\ i < j
        /\ q[i] = word
        /\ q[j] = "("
        /\ \A m \in (i + 1)..(j - 1) : q[m] \in Whitespace

\* re.search(r'<script.*?>.*?</script>', q) on lowered pieces
HasScriptTag(q) ==
    \E i \in 1..Len(q), j \in 1..Len(q), m \in 1..Len(q) :
        /\ i < j
        /\ j < m
        /\ q[i] = "<script"
        /\ q[j] = ">"
        /\ q[m] = "</script>"

\* lines 209-219: some suspicious pattern is found, letter case ignored
Suspicious(the_query) ==
    LET q == lowerPieces(the_query)
    IN  \/ HasScriptTag(q)
        \/ \E i \in 1..Len(q) : q[i] \in {"javascript:", "data:text/html"}
        \/ CallsFunction(q, "eval")
        \/ CallsFunction(q, "exec")

Verdict(valid, message) == [valid |-> valid, message |-> message]

\* validate_query that looks for unsafe content before it measures the the_query
MutValidateQueryUnsafeFirst(the_query, min_length, max_length) ==
    IF the_query = <<>> \/ strip(the_query) = <<>> THEN Verdict(FALSE, "Query cannot be empty.")
    ELSE LET q == strip(the_query)
         IN  IF Suspicious(q)
             THEN Verdict(FALSE, "Query contains potentially unsafe content.")
             ELSE IF TextLen(q) < min_length THEN Verdict(FALSE, "Query too short.")
             ELSE IF TextLen(q) > max_length THEN Verdict(FALSE, "Query too long.")
             ELSE Verdict(TRUE, "")

\* validate_query (185-221); the_query is its argument query
validate_query(the_query, min_length, max_length) ==
    IF the_query = <<>> \/ strip(the_query) = <<>> THEN Verdict(FALSE, "Query cannot be empty.")
    ELSE LET q == strip(the_query)
         IN  IF TextLen(q) < min_length THEN Verdict(FALSE, "Query too short.")
             ELSE IF TextLen(q) > max_length THEN Verdict(FALSE, "Query too long.")
             ELSE IF Suspicious(q)
             THEN Verdict(FALSE, "Query contains potentially unsafe content.")
             ELSE Verdict(TRUE, "")

\* the sequences over `alphabet` of length at most n
SeqsUpTo(alphabet, n) == UNION { [1..m -> alphabet] : m \in 0..n }

CleanTextCalls ==
    { [fn |-> "clean_text", text |-> t]
        : t \in {None} \cup SeqsUpTo({"a", " ", "\t", "@", "-"}, MaxTextLen) }

KeywordCalls ==
    { [fn |-> "extract_keywords", text |-> t, max_keywords |-> k]
        : t \in SeqsUpTo({"The", "is", "cmd", "Cmd", "x", " ", ","}, MaxPieces),
          k \in 0..MaxKeywords }

TruncateCalls ==
    { [fn |-> "truncate_text", text |-> t, max_length |-> n, suffix |-> sfx]
        : t \in SeqsUpTo({"a", " "}, MaxTextLen),
          n \in 0..MaxTextLen,
          sfx \in { <<>>, <<".">>, <<".", ".", ".">> } }

\* every short query over four pieces, and one query or two for each of
\* the other patterns
Queries ==
    SeqsUpTo({" ", "a", "Eval", "("}, MaxPieces)
    \cup { <<"<script", ">", "a", "</script>">>, <<"</script>", "<script", ">">>,
           <<" ", "JavaScript:", "a">>, <<"data:text/html">>,
           <<"exec", "\t", " ", "(">>, <<"exec", "a", "(">> }

ValidateCalls ==
    { [fn |-> "validate_query", query |-> q, min_length |-> lo, max_length |-> hi]
        : q \in Queries, lo \in 0..MaxMinLength, hi \in {2, 2 * MaxMinLength, 500} }

Returned(value) == result' = [done |-> TRUE, value |-> value]

CleanText ==
    /\ call.fn = "clean_text"
    /\ ~result.done
    /\ Returned(clean_text(call.text))
    /\ UNCHANGED call
    /\ UNCHANGED <<chatVars, ctxVars, idxVars, recVars>>

ExtractKeywords ==
    /\ call.fn = "extract_keywords"
    /\ ~result.done
    /\ Returned(extract_keywords(call.text, call.max_keywords))
    /\ UNCHANGED call
    /\ UNCHANGED <<chatVars, ctxVars, idxVars, recVars>>

TruncateText ==
    /\ call.fn = "truncate_text"
    /\ ~result.done
    /\ Returned(truncate_text(call.text, call.max_length, call.suffix))
    /\ UNCHANGED call
    /\ UNCHANGED <<chatVars, ctxVars, idxVars, recVars>>

ValidateQuery ==
    /\ call.fn = "validate_query"
    /\ ~result.done
    /\ Returned(validate_query(call.query, call.min_length, call.max_length))
    /\ UNCHANGED call
    /\ UNCHANGED <<chatVars, ctxVars, idxVars, recVars>>

\* values of the variables a specification does not use
TxtIdle ==
    /\ call = NoCall
    /\ result = NoResult

RecIdle ==
    /\ record = [description |-> "Test content"]
    /\ stored = NothingStored
    /\ surfaced = NothingSurfaced

CtxIdle ==
    /\ ctxIn = [k |-> 0, search |-> [raised |-> FALSE, docs |-> <<>>]]
    /\ ctxOut = [done |-> FALSE, context |-> <<>>, printed |-> <<>>]

IdxIdle ==
    /\ storeExists = FALSE
    /\ storeChunks = <<>>
    /\ total = 0
    /\ run = NoRun

ChatIdle ==
    /\ pc = "IDLE"
    /\ messages = <<>>
    /\ query = <<>>
    /\ sent = <<>>
    /\ out = <<>>
    /\ ev = NoEvent
    /\ reads = 0
    /\ llmCalls = 0
    /\ exitCode = -1
    /\ env = [apiKey |-> FALSE, openai |-> TRUE, sentence_transformers |-> FALSE,
              num_similar |-> 0, debug |-> FALSE, index |-> FALSE]
    /\ embedding = "none"

Init ==
    /\ pc = "START"
    /\ messages = <<>>
    /\ query = <<>>
    /\ sent = <<>>
    /\ out = <<>>
    /\ ev = NoEvent
    /\ reads = 0
    /\ llmCalls = 0
    /\ exitCode = -1
    /\ env \in ChatEnvs
    /\ embedding = "none"
    /\ CtxIdle
    /\ IdxIdle
    /\ RecIdle
    /\ TxtIdle

Next ==
    \/ Startup
    \/ ReadInput
    \/ InputInterrupt
    \/ InputError
    \/ Invoke
    \/ InvokeError
    \/ InvokeInterrupt

Spec == Init /\ [][Next]_vars

CtxInit ==
    /\ ChatIdle
    /\ IdxIdle
    /\ RecIdle
    /\ TxtIdle
    /\ \E k \in 0..MaxK : \E search \in SearchOutcomes(k) :
         ctxIn = [k |-> k, search |-> search]
    /\ ctxOut = [done |-> FALSE, context |-> <<>>, printed |-> <<>>]

CtxNext == BuildContext

ContextSpec == CtxInit /\ [][CtxNext]_vars

IdxInit ==
    /\ ChatIdle
    /\ CtxIdle
    /\ RecIdle
    /\ TxtIdle
    /\ storeExists = FALSE
    /\ storeChunks = <<>>
    /\ total \in SourceSizes
    /\ run = NoRun

IdxNext ==
    \/ IndexerMain
    \/ LegacyIndexerMain

IndexerSpec == IdxInit /\ [][IdxNext]_vars

RecInit ==
    /\ ChatIdle
    /\ CtxIdle
    /\ IdxIdle
    /\ TxtIdle
    /\ record \in Records
    /\ stored = NothingStored
    /\ surfaced = NothingSurfaced

RecNext ==
    \/ ExtractMetadata
    \/ ExtraerMetadatos
    \/ SurfaceChunk

RecordSpec == RecInit /\ [][RecNext]_vars

TxtInit ==
    /\ ChatIdle
    /\ CtxIdle
    /\ IdxIdle
    /\ RecIdle
    /\ call \in CleanTextCalls \cup KeywordCalls \cup TruncateCalls \cup ValidateCalls
    /\ result = NoResult

TxtNext ==
    \/ CleanText
    \/ ExtractKeywords
    \/ TruncateText
    \/ ValidateQuery

TextSpec == TxtInit /\ [][TxtNext]_vars

-----------------------------------------------------------------------------
(* Properties of the chat session *)

IsExit(q) == lower(q) \in EXIT_COMMANDS

\* the step read an input line that is a question
AskedQuestion == ev'.op = "input" /\ query' # <<>> /\ ~IsExit(query')

SessionSteps(causes) ==
    \* input is read only in AWAITING_INPUT
    /\ reads' # reads => pc = "AWAITING_INPUT"
    \* exactly the non-empty, non-exit inputs move to PROCESSING
    /\ AskedQuestion => pc' = "PROCESSING"
    /\ (pc # "PROCESSING" /\ pc' = "PROCESSING") => (pc = "AWAITING_INPUT" /\ AskedQuestion)
    \* PROCESSING goes back to AWAITING_INPUT without reading input, on
    \* success and on a recoverable failure; only an interrupt ends it
    /\ pc = "PROCESSING" =>
          /\ reads' = reads
          /\ pc' \in {"AWAITING_INPUT", "TERMINATED"}
          /\ ev'.op \in {"invoke", "invoke_error"} => pc' = "AWAITING_INPUT"
          /\ pc' = "TERMINATED" => ev'.op = "invoke_interrupt"
    \* what ends the session
    /\ (pc # "TERMINATED" /\ pc' = "TERMINATED") =>
          \/ ev'.op = "input" /\ IsExit(query')
          \/ ev'.op \in causes
    \* nothing happens after TERMINATED
    /\ pc = "TERMINATED" => (pc' = "TERMINATED" /\ reads' = reads /\ llmCalls' = llmCalls)

\* C1 as amended: the session loop is a state machine over AWAITING_INPUT,
\* PROCESSING and TERMINATED: input is read only in AWAITING_INPUT; a
\* non-empty, non-exit input (and nothing else) moves to PROCESSING;
\* PROCESSING returns to AWAITING_INPUT on success and on a recoverable
\* failure before the next input is read; TERMINATED is entered only on an
\* exit command, an interrupt, or an exception raised while reading input
\* (end of input); after TERMINATED no input is read and no model call made.
C1_SessionStateMachine ==
    [][SessionSteps({"input_interrupt", "invoke_interrupt", "input_error"})]_vars

\* C1 as stated: TERMINATED is entered only on an exit command or an interrupt.
C1_TerminatedOnlyOnExitOrInterrupt ==
    [][SessionSteps({"input_interrupt", "invoke_interrupt"})]_vars

\* a session that answered a question and then ended at end of input
C1_Witness ==
    /\ pc = "TERMINATED"
    /\ ev.op = "input_error"
    /\ llmCalls >= 1
    /\ Len(messages) >= 3

IsErrorMarker(m) ==
    /\ m.type = "system"
    /\ Len(m.content) = 2
    /\ m.content[1] = "Error calling language model: "

\* C2: when llm.invoke raises during a turn, the transcript afterwards is
\* the transcript before the turn, then the user's message, then exactly one
\* error marker; the loop is back at reading input and the process runs on.
C2_ModelFailureLeavesMarker ==
    [][ /\ (pc = "AWAITING_INPUT" /\ pc' = "PROCESSING") =>
              messages' = Append(messages, HumanMessage(query'))
        /\ (pc = "PROCESSING" /\ ev'.op = "invoke" /\ ev'.llm = "raised") =>
              /\ Last(messages) = HumanMessage(query)
              /\ Len(messages') = Len(messages) + 1
              /\ SubSeq(messages', 1, Len(messages)) = messages
              /\ IsErrorMarker(Last(messages'))
              /\ pc' = "AWAITING_INPUT"
              /\ exitCode' = -1 ]_vars

\* a failed turn followed by a question that was answered
C2_Witness ==
    /\ pc = "AWAITING_INPUT"
    /\ Len(messages) = 5
    /\ IsErrorMarker(messages[3])
    /\ messages[4].type = "human"
    /\ messages[5].type = "system" /\ ~IsErrorMarker(messages[5])

\* C6: a failing similarity search (or query embedding) during a turn is
\* caught: a warning is printed in the session and the error text stands in
\* for the context of the prompt, the turn completes with one assistant
\* message and the loop is back at reading input; the process does not exit.
C6_RetrievalFailureRecovered ==
    [][ (pc = "PROCESSING" /\ ev'.op = "invoke" /\ ev'.search = "raised") =>
          /\ \E i \in 1..Len(out') : out'[i] = "Error building context"
          /\ sent'[1].content[5] = ContextError
          /\ Len(messages') = Len(messages) + 1
          /\ Last(messages').type = "system"
          /\ pc' = "AWAITING_INPUT"
          /\ exitCode' = -1 ]_vars

\* a turn whose search failed, answered by the model, and the next question read
C6_Witness ==
    /\ pc = "PROCESSING"
    /\ Len(messages) = 4
    /\ sent # <<>>
    /\ sent[1].content[5] = ContextError
    /\ ~IsErrorMarker(messages[3])

\* C7: before any input is read the transcript is the one system preamble,
\* and every step leaves the old transcript as a prefix of the new one.
C7_TranscriptAppendOnly ==
    [][ /\ IsPrefix(messages, messages')
        /\ (pc' = "AWAITING_INPUT" /\ reads' = 0) =>
              messages' = << SystemMessage(Preamble) >> ]_vars

\* two turns, one of them failed, after an empty input
C7_Witness ==
    /\ Len(messages) = 5
    /\ reads = 3
    /\ \E i \in 1..Len(messages) : IsErrorMarker(messages[i])

Alternating(lines) ==
    \A i \in 1..(Len(lines) - 1) : lines[i][1] # lines[i + 1][1]

\* C8: every model call sends exactly one message, of system role, whose
\* content is the system prompt, the transcript rendered as alternating
\* "User:" / "Assistant:" lines, the context and the current question, in
\* this order; the model's reply is the one message appended.
C8_SingleSystemPrompt ==
    [][ ev'.op = "invoke" =>
          /\ Len(sent') = 1
          /\ sent'[1].type = "system"
          /\ LET c == sent'[1].content
             IN  /\ Len(c) = 7
                 /\ c[1] = SYSTEM_PROMPT
                 /\ c[3] = conversation_history(messages)
                 /\ Alternating(c[3])
                 /\ c[7] = query
          /\ ev'.llm = "ok" =>
                /\ Len(messages') = Len(messages) + 1
                /\ SubSeq(messages', 1, Len(messages)) = messages
                /\ \E o \in LlmOutcomes : Last(messages').content = o.content ]_vars

-----------------------------------------------------------------------------
(* Properties of the context rendering *)

StartsWith(line, label) == line # <<>> /\ line[1] = label

\* the positions of the lines that open a block
BlockStarts(ctx) == { j \in 1..Len(ctx) : StartsWith(ctx[j], "Technique: ") }

NumBlocks(ctx) == Cardinality(BlockStarts(ctx))

\* the lines of the i-th block of a rendered context
NthBlock(ctx, i) ==
    LET starts == BlockStarts(ctx)
        first == CHOOSE j \in starts : Cardinality({x \in starts : x < j}) = i - 1
        later == {x \in starts : x > first}
        last == IF later = {} THEN Len(ctx)
                ELSE (CHOOSE x \in later : \A y \in later : x <= y) - 1
    IN  SubSeq(ctx, first, last)

HasLine(block, label) == \E j \in 1..Len(block) : StartsWith(block[j], label)

LineOf(block, label) == CHOOSE j \in 1..Len(block) : StartsWith(block[j], label)

Label(f) ==
    CASE f \in {"name", "id"} -> "Technique: "
      [] f = "tactics" -> "Tactics: "
      [] f = "detection" -> "Detection: "
      [] f = "datasources" -> "Data sources: "
      [] f = "permissions_required" -> "Required permissions: "
      [] f = "mitigations" -> "Mitigation methods:"
      [] f = "url" -> "URL: "

\* the text a block shows for a field, as a sequence of pieces
Shown(block, f) ==
    LET j == LineOf(block, Label(f))
    IN  CASE f = "id" -> << block[j][4] >>
          [] f = "mitigations" -> Flatten(SubSeq(block, j + 1, LineOf(block, "URL: ") - 1))
          [] OTHER -> << block[j][2] >>

PlaceholderMarkers == {"Unknown", "N/A", "Not available"}

IsPlaceholder(text) ==
    /\ text # <<>>
    /\ \A i \in 1..Len(text) : text[i] \in PlaceholderMarkers

Rendered == ctxOut.done /\ ~ctxIn.search.raised

\* C9: for every retrieved chunk and every set of missing metadata fields,
\* the block has the labeled line of each missing field and the line carries
\* an explicit placeholder, never an empty value.
C9_MissingFieldsShowPlaceholder ==
    Rendered =>
        \A i \in 1..Len(ctxIn.search.docs) :
            \A f \in Fields \ DOMAIN ctxIn.search.docs[i].metadata :
                LET block == NthBlock(ctxOut.context, i)
                IN  /\ HasLine(block, Label(f))
                    /\ IsPlaceholder(Shown(block, f))

-----------------------------------------------------------------------------
(* Properties of the indexer *)

RunEnded == run'.op # "none"

\* C3: a run against a target path that already exists, without --force,
\* exits with a non-zero status and leaves the store unchanged.
C3_ExistingStoreRefusedNonZero ==
    [][ (RunEnded /\ storeExists /\ ~run'.args.force) =>
          /\ run'.exit # 0
          /\ storeExists' = storeExists
          /\ storeChunks' = storeChunks ]_vars

NoDuplicates(seq) == Cardinality({ seq[i] : i \in 1..Len(seq) }) = Len(seq)

\* C4: after any sequence of runs every source chunk is in the collection
\* at most once; a run adds chunks only when no store exists at the target
\* or after --force removed the whole store, so what the store holds was
\* written by one run.
C4_NoDoubleIndexing ==
    /\ NoDuplicates(storeChunks)
    /\ run.added > 0 =>
          /\ ~run.existed \/ (run.args.force /\ run.removed)
          /\ Len(storeChunks) = run.added

\* a complete store rebuilt under --force, more than one batch long
C4_Witness ==
    /\ run.op = "main"
    /\ run.removed
    /\ run.exit = 0
    /\ total > BatchSize
    /\ storeChunks = Documents(total)

\* C5: a run with the source file missing exits with a diagnostic and
\* leaves the target path as it was, with or without --force, with or
\* without a store at the path.
C5_MissingSourceTouchesNothing ==
    [][ (RunEnded /\ run'.args.file = "missing") =>
          /\ run'.exit # 0
          /\ storeExists' = storeExists
          /\ storeChunks' = storeChunks ]_vars

-----------------------------------------------------------------------------
(* Properties of a record's way from the source file to the prompt *)

\* s.split(sep): the parts of s between the occurrences of sep
RECURSIVE split(_, _)
split(sep, s) ==
    LET hits == { i \in 1..(Len(s) - Len(sep) + 1) : SubSeq(s, i, i + Len(sep) - 1) = sep }
    IN  IF hits = {} THEN <<s>>
        ELSE LET i == CHOOSE h \in hits : \A g \in hits : h <= g
             IN  <<SubSeq(s, 1, i - 1)>> \o split(sep, SubSeq(s, i + Len(sep), Len(s)))

\* the names a reader finds on a Tactics line: none on an empty line
NamesOn(text) == IF text = <<>> THEN <<>> ELSE split(Separator, text)

SurfacedBlock == NthBlock(surfaced.context, 1)

\* C11: the id and the tactics the indexer stored for a record are shown
\* unchanged in the block of a chunk of that record: the id shown is the
\* stored id, and the record's id when it has one; the tactics line is the
\* stored text, and the names on it are the record's tactics, in the
\* record's order, none added, dropped or altered.
C11_IdAndTacticsRoundTrip ==
    surfaced.done =>
        /\ NumBlocks(surfaced.context) = 1
        /\ Shown(SurfacedBlock, "id") = << stored.metadata.id >>
        /\ Has(record, "id") => Shown(SurfacedBlock, "id") = << record.id >>
        /\ Shown(SurfacedBlock, "tactics") = << stored.metadata.tactics >>
        /\ NamesOn(Shown(SurfacedBlock, "tactics")[1]) = Get(record, "tactics", <<>>)

\* a record with two different tactics, indexed by extract_metadata and
\* then retrieved
C11_Witness ==
    /\ surfaced.done
    /\ stored.op = "extract_metadata"
    /\ Has(record, "id")
    /\ Has(record, "tactics")
    /\ Len(record.tactics) = 2
    /\ record.tactics[1] # record.tactics[2]
    /\ Len(record.tactics[2]) > 1

-----------------------------------------------------------------------------
(* Properties of an indexing run and the source it reads *)

\* the run indexed the source to the end
IndexingCompleted ==
    /\ run.op # "none"
    /\ run.exit = 0
    /\ run.out \in { <<"Indexing completed successfully">>, <<"indice creado">> }

ChunksInStore == { storeChunks[i] : i \in 1..Len(storeChunks) }

\* C12: after a run that indexed the source to the end, every source record
\* with a non-empty description has at least one chunk in the collection
\* that carries the record's id, and every chunk of the source is in the
\* collection: none is lost at the boundary between two batches of 100.
C12_EveryRecordIndexed ==
    IndexingCompleted =>
        LET held == ChunksInStore
            ids == { RecordOf(c) : c \in held }
        IN  /\ \A r \in SourceRecords(total) : HasDescription(r) => r \in ids
            /\ \A c \in 1..total : c \in held

\* a first run over a source one chunk longer than a batch
C12_Witness ==
    /\ IndexingCompleted
    /\ run.op = "main"
    /\ ~run.existed
    /\ total = BatchSize + 1
    /\ \E r \in SourceRecords(total) : ~HasDescription(r)

RequiredKeys == {"id", "name", "tactics", "url", "mitigations"}

\* C13: the metadata the indexer stores with a record's chunks has the keys
\* id, name, tactics, url and mitigations, whatever fields the record had.
C13_RequiredMetadataKeys ==
    stored.op # "none" => RequiredKeys \subseteq DOMAIN stored.metadata

\* C15: a source with a record that has no id makes the run fail, and
\* nothing is written to the collection.
C15_MissingIdIsFatal ==
    (run.op # "none" /\ run.args.file = "no_id") =>
        /\ run.exit # 0
        /\ run.added = 0

ListFields == {"tactics", "platforms", "datasources", "permissions_required",
               "mitigations"}

\* the value stored under a key is empty: the empty list or the empty string
IsEmptyValue(f, v) == IF f \in ListFields THEN v = <<>> ELSE v = ""

\* C16: for every record and every set of absent optional fields,
\* extract_metadata returns, and each absent field's key is set to an
\* explicit placeholder that is not empty.
C16_AbsentFieldsGetPlaceholder ==
    stored.op = "extract_metadata" =>
        \A f \in OptionalFields \ DOMAIN record :
            /\ Has(stored.metadata, f)
            /\ ~IsEmptyValue(f, stored.metadata[f])

\* the run got as far as reading the source: it was not turned away by a
\* store at the target path
ReadSource ==
    /\ run.op # "none"
    /\ run.op = "main" => (run.existed => run.args.force)
    /\ run.op = "legacy_main" => ~run.existed

-----------------------------------------------------------------------------
(* Properties of the chat command's start and end *)

Printed(text) == \E i \in 1..Len(out) : out[i] = text

InSession == pc \in {"AWAITING_INPUT", "PROCESSING", "TERMINATED"}

\* C17: without the OpenAI credential the chat command exits with a
\* non-zero status and a diagnostic, and it does so before the embedding
\* model is set up, the vector store is opened, the workflow is built or
\* any input is read.
C17_MissingCredentialExitsFirst ==
    (~env.apiKey /\ pc # "START") =>
        /\ pc = "EXITED"
        /\ exitCode # 0
        /\ exitCode # -1
        /\ Printed("OpenAI API key is required")
        /\ \A c \in Confirmations : ~Printed(c)
        /\ embedding = "none"
        /\ messages = <<>>
        /\ reads = 0
        /\ llmCalls = 0

\* the command was started without the credential, an index being there
\* and the local model asked for
C17_Witness ==
    /\ pc = "EXITED"
    /\ ~env.apiKey
    /\ env.index
    /\ env.sentence_transformers
    /\ ev.op = "startup"

\* C18: with no index at the vector-store path the chat command exits with
\* a diagnostic before it reads any input; no session runs over a store the
\* indexer did not produce.
C18_MissingIndexExitsFirst ==
    (~env.index /\ pc # "START") =>
        /\ pc = "EXITED"
        /\ exitCode # 0
        /\ reads = 0

Farewells == {"Goodbye", "Session interrupted. Goodbye"}

\* C19: however the session ends (exit command, keyboard interrupt while
\* reading or processing, an error that escapes the loop such as the end of
\* the input), the last thing it does is print a farewell message.
C19_FarewellOnEveryEnd ==
    pc = "TERMINATED" => \E f \in Farewells : Printed(f)

\* C20: in every session that passed the pre-flight checks and was started
\* with -s, the embedding model set up is the local one.
C20_LocalFlagSelectsLocalModel ==
    (InSession /\ env.sentence_transformers) => embedding = "local"

-----------------------------------------------------------------------------
(* Properties of the embedding backend, the transcript and the store *)

\* the run set up an embedding model
EmbeddingsSetUp == run.op # "none" /\ run.embedding \in {"openai", "local"}

\* C21: whenever the indexer is run with --sentence-transformers, the
\* embedding model it sets up is the local one, never the OpenAI one, with
\* or without an API key.
C21_LocalFlagSelectsLocalEmbeddings ==
    (EmbeddingsSetUp /\ run.op = "main" /\ run.args.sentence_transformers) =>
        run.embedding = "local"

\* C26: whenever the loop waits for input, every user message of the
\* transcript is followed at once by exactly one assistant message: none is
\* left unanswered and no two user messages are adjacent.
C26_EveryUserMessageAnswered ==
    pc = "AWAITING_INPUT" =>
        \A i \in 1..Len(messages) :
            messages[i].type = "human" =>
                /\ i < Len(messages)
                /\ messages[i + 1].type = "system"
                /\ i + 2 <= Len(messages) => messages[i + 2].type = "human"

\* C27: whenever a store is at the target path after a run has ended, it
\* holds all chunks of the source file.
C27_StoreIsComplete ==
    (run.op # "none" /\ storeExists) => storeChunks = Documents(total)

\* C28: the chunk size a run splits with is the one of the embedding
\* backend the run sets up: 256 for the local model, CHUNK_SIZE for OpenAI.
C28_ChunkSizeMatchesBackend ==
    EmbeddingsSetUp =>
        run.chunk_size = (IF run.embedding = "local" THEN LocalChunkSize ELSE CHUNK_SIZE)

\* C29: an input that is empty after trimming, and an exit command in any
\* letter case with whitespace around it, append nothing to the transcript
\* and cause no retrieval and no model call; after the empty input the loop
\* waits for input again, after the exit command the session is over.
C29_EmptyAndExitLeaveStateUntouched ==
    [][ (ev'.op = "input" /\ (query' = <<>> \/ IsExit(query'))) =>
          /\ messages' = messages
          /\ sent' = sent
          /\ llmCalls' = llmCalls
          /\ ev'.search = "none"
          /\ ev'.llm = "none"
          /\ query' = <<>> => (pc' = "AWAITING_INPUT" /\ exitCode' = exitCode)
          /\ IsExit(query') => pc' = "TERMINATED" ]_vars

\* an exit command typed in mixed case ended a session that had answered a
\* question
C29_Witness ==
    /\ pc = "TERMINATED"
    /\ ev.op = "input"
    /\ query = <<":", "E", "x", "I", "T">>
    /\ Len(messages) >= 3

-----------------------------------------------------------------------------
(* Properties of the text utilities *)

Called(fn) == result.done /\ call.fn = fn

EndsWith(text, sfx) ==
    /\ Len(sfx) <= Len(text)
    /\ SubSeq(text, Len(text) - Len(sfx) + 1, Len(text)) = sfx

FirstComplaint(q, lo, hi) ==
    IF q = <<>> THEN "Query cannot be empty."
    ELSE IF TextLen(q) < lo THEN "Query too short."
    ELSE IF TextLen(q) > hi THEN "Query too long."
    ELSE "Query contains potentially unsafe content."

C24_CleanTextNormalizes ==
    Called("clean_text") =>
        LET r == result.value
        IN  /\ call.text \in {None, <<>>} => r = <<>>
            /\ r # <<>> => (r[1] \notin Whitespace /\ Last(r) \notin Whitespace)
            /\ \A i \in 1..(Len(r) - 1) : ~(r[i] \in Whitespace /\ r[i + 1] \in Whitespace)
            /\ clean_text(r) = r

\* the words of a text: lower-cased, punctuation read as a blank
WordsOf(text) ==
    split_words([i \in 1..Len(text) |->
                   IF text[i] \in PunctuationPieces THEN " " ELSE lowerPiece(text[i])])

FirstAt(words, w) == CHOOSE i \in 1..Len(words) : words[i] = w /\ \A j \in 1..(i - 1) : words[j] # w

\* C25: extract_keywords returns at most max_keywords words of the text,
\* lower-cased, each longer than 2 characters and no stop word, none twice,
\* in the order of their first occurrence in the text; for the empty text
\* it returns the empty list.
C25_KeywordsFilteredUniqueOrdered ==
    Called("extract_keywords") =>
        LET r == result.value
            words == WordsOf(call.text)
        IN  /\ Len(r) <= call.max_keywords
            /\ call.text = <<>> => r = <<>>
            /\ \A i \in 1..Len(r) :
                  /\ \E j \in 1..Len(words) : words[j] = r[i]
                  /\ lowerPieces(r[i]) = r[i]
                  /\ TextLen(r[i]) > 2
                  /\ ~(Len(r[i]) = 1 /\ r[i][1] \in stop_words)
            /\ \A i, j \in 1..Len(r) :
                  i < j => (r[i] # r[j] /\ FirstAt(words, r[i]) < FirstAt(words, r[j]))

\* a text that names a keyword twice, in two letter cases
C25_Witness ==
    /\ Called("extract_keywords")
    /\ \E i, j \in 1..Len(WordsOf(call.text)) :
          i < j /\ WordsOf(call.text)[i] = WordsOf(call.text)[j]
    /\ \E i \in 1..Len(call.text) : call.text[i] = "Cmd"
    /\ Len(result.value) = 1
    /\ call.max_keywords > 1

=============================================================================
